---- MODULE Spec2Model ----
(***************************************************************************)
(* tilext: a batch tool that turns a tile-packed PNG into a gutter-padded  *)
(* one (resize stage) and copies every tile's border pixels into its       *)
(* one-pixel gutter (extrusion stage).  The model follows src/main.rs:     *)
(* main's loop over the input paths and process_image stage by stage, one  *)
(* action per loop iteration of the resize scan and of the extrusion loop. *)
(* A pixel (RGBA) is a natural number; 0 is RGBA::default(), the blank     *)
(* pixel.  Buffers are row-major sequences; the code's 0-based index k is  *)
(* element k+1 of the sequence.                                            *)
(***************************************************************************)
EXTENDS Integers, Sequences, FiniteSets, TLC

\* ---------------------------------------------------------------- bounds
MaxTile == 2        \* tile sizes 0..MaxTile are given on the command line
MaxWidth == 4       \* decoded images are 1..MaxWidth pixels wide
MaxHeight == 4      \* and 1..MaxHeight pixels high
MaxPaths == 2       \* 1..MaxPaths input paths
MaxGrid == 2        \* stand-alone extrusion: 1..MaxGrid tile columns and rows
MaxOps == 16        \* any-order extrusion: at most MaxOps gutter copies

VARIABLES
    tile_size, output_suffix, make_backup, input_paths,   \* Config
    path_i, pc, started, result, panic_line,              \* main and the position in process_image
    width, height, buffer,                                \* image
    columns, rows, new_width, new_height, to_insert,      \* locals of the resize stage
    inserted, i, scan_len,
    tile_row_i, tile_column_i, tile_pixel_y, tile_pixel_x,\* extrusion loop indices
    orig, pre, wrote,                                     \* history of the current image
    pass, once, todo                                      \* stand-alone extrusion runs

config == <<tile_size, output_suffix, make_backup, input_paths>>
mainv == <<path_i, started, result, panic_line>>
image == <<width, height, buffer>>
geom == <<columns, rows, new_width, new_height, to_insert>>
scanv == <<inserted, i, scan_len>>
loopv == <<tile_row_i, tile_column_i, tile_pixel_y, tile_pixel_x>>
hist == <<orig, pre, wrote>>
harness == <<pass, once, todo>>
vars == <<config, mainv, pc, image, geom, scanv, loopv, hist, harness>>

\* ------------------------------------------------------------ pure parts
\* vec![Default::default(); n]
Blank(n) == [k \in 1..n |-> 0]

\* get_pixel_index
get_pixel_index(pixel_x, pixel_y, image_width) == pixel_y * image_width + pixel_x

\* insert_pixels: the buffer after the call (the returned count is Len(pixels))
insert_pixels(buf, pos, pixels) ==
    IF pos >= Len(buf)
    THEN buf \o pixels
    ELSE SubSeq(buf, 1, pos) \o pixels \o SubSeq(buf, pos + 1, Len(buf))

\* ScanBody with the two pixels of lines 194 and 198 inserted after the pixel
\* instead of before it.
ScanBodyAfter(buf, ins, k, w, ts, nw) ==
    LET pixel_x == k % w
        row == k \div w
        rowpad == IF k = 0 THEN Blank(nw - 1) ELSE Blank(nw * 2)
        atTileRow == pixel_x = 0 /\ row % ts = 0
        buf1 == IF atTileRow THEN insert_pixels(buf, k + ins, rowpad) ELSE buf
        ins1 == IF atTileRow THEN ins + Len(rowpad) ELSE ins
        two == pixel_x = 0 \/ pixel_x % ts = 0
        buf2 == IF two THEN insert_pixels(buf1, k + ins1 + 1, Blank(2)) ELSE buf1
        ins2 == IF two THEN ins1 + 2 ELSE ins1
    IN  [buffer |-> buf2, inserted |-> ins2]

\* ScanBody without the special case of line 186: the first pixel row gets two
\* blank rows like every later tile row.
ScanBodyFirstRow(buf, ins, k, w, ts, nw) ==
    LET pixel_x == k % w
        row == k \div w
        rowpad == Blank(nw * 2)
        atTileRow == pixel_x = 0 /\ row % ts = 0
        buf1 == IF atTileRow THEN insert_pixels(buf, k + ins, rowpad) ELSE buf
        ins1 == IF atTileRow THEN ins + Len(rowpad) ELSE ins
        two == pixel_x = 0 \/ pixel_x % ts = 0
        buf2 == IF two THEN insert_pixels(buf1, k + ins1, Blank(2)) ELSE buf1
        ins2 == IF two THEN ins1 + 2 ELSE ins1
    IN  [buffer |-> buf2, inserted |-> ins2]

\* One iteration of the insertion scan, for index k of the original buffer:
\* the buffer and the running count after it.
ScanBody(buf, ins, k, w, ts, nw) ==
    LET pixel_x == k % w
        row == k \div w
        rowpad == IF k = 0 THEN Blank(nw - 1) ELSE Blank(nw * 2)
        atTileRow == pixel_x = 0 /\ row % ts = 0
        buf1 == IF atTileRow THEN insert_pixels(buf, k + ins, rowpad) ELSE buf
        ins1 == IF atTileRow THEN ins + Len(rowpad) ELSE ins
        two == pixel_x = 0 \/ pixel_x % ts = 0
        buf2 == IF two THEN insert_pixels(buf1, k + ins1, Blank(2)) ELSE buf1
        ins2 == IF two THEN ins1 + 2 ELSE ins1
    IN  [buffer |-> buf2, inserted |-> ins2]

\* FromIndex with the top-left corner copied from its right-hand neighbour, a
\* gutter pixel of the top edge, instead of the diagonal interior pixel.
FromIndexGutterCorner(tpx, tpy, pixel_x, pixel_y, tile_pixel_max, w) ==
    IF tpy = 0 THEN
        IF tpx = 0 THEN <<get_pixel_index(pixel_x + 1, pixel_y, w)>>
        ELSE IF tpx = tile_pixel_max THEN <<get_pixel_index(pixel_x - 1, pixel_y + 1, w)>>
        ELSE <<get_pixel_index(pixel_x, pixel_y + 1, w)>>
    ELSE IF tpy = tile_pixel_max THEN
        IF tpx = 0 THEN <<get_pixel_index(pixel_x + 1, pixel_y - 1, w)>>
        ELSE IF tpx = tile_pixel_max THEN <<get_pixel_index(pixel_x - 1, pixel_y - 1, w)>>
        ELSE <<get_pixel_index(pixel_x, pixel_y - 1, w)>>
    ELSE
        IF tpx = 0 THEN <<get_pixel_index(pixel_x + 1, pixel_y, w)>>
        ELSE IF tpx = tile_pixel_max THEN <<get_pixel_index(pixel_x - 1, pixel_y, w)>>
        ELSE <<>>

\* FromIndex with the bottom-right corner left out (None).
FromIndexNoCorner(tpx, tpy, pixel_x, pixel_y, tile_pixel_max, w) ==
    IF tpy = 0 THEN
        IF tpx = 0 THEN <<get_pixel_index(pixel_x + 1, pixel_y + 1, w)>>
        ELSE IF tpx = tile_pixel_max THEN <<get_pixel_index(pixel_x - 1, pixel_y + 1, w)>>
        ELSE <<get_pixel_index(pixel_x, pixel_y + 1, w)>>
    ELSE IF tpy = tile_pixel_max THEN
        IF tpx = 0 THEN <<get_pixel_index(pixel_x + 1, pixel_y - 1, w)>>
        ELSE IF tpx = tile_pixel_max THEN <<>>
        ELSE <<get_pixel_index(pixel_x, pixel_y - 1, w)>>
    ELSE
        IF tpx = 0 THEN <<get_pixel_index(pixel_x + 1, pixel_y, w)>>
        ELSE IF tpx = tile_pixel_max THEN <<get_pixel_index(pixel_x - 1, pixel_y, w)>>
        ELSE <<>>

\* The match of the extrusion loop: <<from_i>> for Some(from_i), <<>> for None.
FromIndex(tpx, tpy, pixel_x, pixel_y, tile_pixel_max, w) ==
    IF tpy = 0 THEN
        IF tpx = 0 THEN <<get_pixel_index(pixel_x + 1, pixel_y + 1, w)>>
        ELSE IF tpx = tile_pixel_max THEN <<get_pixel_index(pixel_x - 1, pixel_y + 1, w)>>
        ELSE <<get_pixel_index(pixel_x, pixel_y + 1, w)>>
    ELSE IF tpy = tile_pixel_max THEN
        IF tpx = 0 THEN <<get_pixel_index(pixel_x + 1, pixel_y - 1, w)>>
        ELSE IF tpx = tile_pixel_max THEN <<get_pixel_index(pixel_x - 1, pixel_y - 1, w)>>
        ELSE <<get_pixel_index(pixel_x, pixel_y - 1, w)>>
    ELSE
        IF tpx = 0 THEN <<get_pixel_index(pixel_x + 1, pixel_y, w)>>
        ELSE IF tpx = tile_pixel_max THEN <<get_pixel_index(pixel_x - 1, pixel_y, w)>>
        ELSE <<>>

\* The copy source of the pixel at local (tpx, tpy) of tile (tr, tc).
PixelFrom(tr, tc, tpy, tpx, ts, w) ==
    FromIndex(tpx, tpy, tpx + tc * (ts + 2), tpy + tr * (ts + 2), (ts + 2) - 1, w)

\* PixelTo with the axes swapped: pixel_x from the tile row, pixel_y from the
\* tile column.
PixelToSwapped(tr, tc, tpy, tpx, ts, w) ==
    get_pixel_index(tpx + tr * (ts + 2), tpy + tc * (ts + 2), w)

\* The copy target of the pixel at local (tpx, tpy) of tile (tr, tc).
PixelTo(tr, tc, tpy, tpx, ts, w) ==
    get_pixel_index(tpx + tc * (ts + 2), tpy + tr * (ts + 2), w)

\* The body of the innermost extrusion loop: the buffer after it.
ExtrudePixel(buf, tr, tc, tpy, tpx, ts, w) ==
    LET from_i == PixelFrom(tr, tc, tpy, tpx, ts, w)
    IN  IF from_i = <<>> THEN buf
        ELSE [buf EXCEPT ![PixelTo(tr, tc, tpy, tpx, ts, w) + 1] = buf[from_i[1] + 1]]

\* The four nested loops run from iteration n (row-major over tile rows, tile
\* columns, local rows, local columns) to the end.
RECURSIVE ExtrudeFrom(_, _, _, _, _, _)
ExtrudeFrom(buf, n, cols, rws, ts, w) ==
    LET stride == ts + 2
        per == stride * stride
        t == n \div per
        l == n % per
    IN  IF n >= cols * rws * per THEN buf
        ELSE ExtrudeFrom(ExtrudePixel(buf, t \div cols, t % cols, l \div stride, l % stride, ts, w),
                         n + 1, cols, rws, ts, w)

\* The whole extrusion loop.
ExtrudeAll(buf, cols, rws, ts, w) == ExtrudeFrom(buf, 0, cols, rws, ts, w)

\* ------------------------------------------------------- the environment
\* Input paths: a path with a file stem ("a.png") and one without (".."),
\* for which file_stem() is None.
PathNames == { [stem |-> "a", ext |-> "png"], [stem |-> "", ext |-> ""] }

\* file_stem().ok_or("Invalid path") succeeds
HasStem(path) == path.stem # ""

\* set_file_name(stem + suffix + ".png")
DerivedPath(path, suffix) == [stem |-> path.stem \o suffix, ext |-> "png"]

\* What decode32_file may return for a w x h image: every pixel different and
\* none blank, or a two-valued image that holds blank pixels of its own.
Fills == {"distinct", "striped"}
Decoded(f, n) == IF f = "distinct" THEN [k \in 1..n |-> k] ELSE [k \in 1..n |-> k % 2]

NoImage == [width |-> 0, height |-> 0, buffer |-> <<>>]

\* ------------------------------------------------------------------ Init
\* The Config parse_args returns with Ok, and main about to enter its loop.
ConfigInit ==
    /\ tile_size \in 0..MaxTile
    /\ output_suffix \in {"", "_ext"}
    /\ make_backup = (output_suffix = "")
    /\ \E n \in 1..MaxPaths : input_paths \in [1..n -> PathNames]

LocalsInit ==
    /\ width = 0 /\ height = 0 /\ buffer = <<>>
    /\ columns = 0 /\ rows = 0 /\ new_width = 0 /\ new_height = 0 /\ to_insert = 0
    /\ inserted = 0 /\ i = 0 /\ scan_len = 0
    /\ tile_row_i = 0 /\ tile_column_i = 0 /\ tile_pixel_y = 0 /\ tile_pixel_x = 0

Init ==
    /\ ConfigInit
    /\ path_i = 0 /\ pc = "main" /\ started = <<>> /\ result = "none" /\ panic_line = 0
    /\ LocalsInit
    /\ orig = NoImage /\ pre = <<>> /\ wrote = <<>>
    /\ pass = 0 /\ once = <<>> /\ todo = {}

\* --------------------------------------------------------------- actions
\* process_image returns res to main's loop, its locals dropped.
Return(res) ==
    /\ pc' = "main"
    /\ path_i' = path_i + 1
    /\ result' = res
    /\ width' = 0 /\ height' = 0 /\ buffer' = <<>>
    /\ columns' = 0 /\ rows' = 0 /\ new_width' = 0 /\ new_height' = 0 /\ to_insert' = 0
    /\ inserted' = 0 /\ i' = 0 /\ scan_len' = 0
    /\ tile_row_i' = 0 /\ tile_column_i' = 0 /\ tile_pixel_y' = 0 /\ tile_pixel_x' = 0
    /\ UNCHANGED <<config, started, panic_line, orig, pre, harness>>

\* A panic on main's thread (a failed assert!, a division by zero, an index
\* out of bounds) ends the process at that line.
Panic(line) ==
    /\ pc' = "panicked"
    /\ panic_line' = line
    /\ result' = "panic"
    /\ UNCHANGED <<config, path_i, started, image, geom, scanv, loopv, hist, harness>>

\* main, lines 303-305: the loop calls process_image for the next path.
StartImage ==
    /\ pc = "main"
    /\ path_i < Len(input_paths)
    /\ pc' = "decode"
    /\ started' = Append(started, path_i)
    /\ result' = "running"
    /\ orig' = NoImage /\ pre' = <<>> /\ wrote' = <<>>
    /\ UNCHANGED <<config, path_i, panic_line, image, geom, scanv, loopv, harness>>

\* main, lines 303-318: the loop is over and main returns.
Exit ==
    /\ pc = "main"
    /\ path_i = Len(input_paths)
    /\ pc' = "exit"
    /\ UNCHANGED <<config, mainv, image, geom, scanv, loopv, hist, harness>>

\* process_image, line 135: decode32_file fails and ? returns the error.
DecodeErr ==
    /\ pc = "decode"
    /\ Return("Err decode")
    /\ UNCHANGED wrote

\* process_image, line 135: decode32_file returns an image.
DecodeOk ==
    /\ pc = "decode"
    /\ \E w \in 1..MaxWidth, h \in 1..MaxHeight, f \in Fills :
        /\ width' = w /\ height' = h /\ buffer' = Decoded(f, w * h)
        /\ orig' = [width |-> w, height |-> h, buffer |-> Decoded(f, w * h)]
    /\ pc' = "backup"
    /\ UNCHANGED <<config, mainv, geom, scanv, loopv, pre, wrote, harness>>

\* process_image, lines 143-154, without make_backup: nothing is written.
BackupSkip ==
    /\ pc = "backup"
    /\ ~make_backup
    /\ pc' = "geometry"
    /\ UNCHANGED <<config, mainv, image, geom, scanv, loopv, hist, harness>>

\* BackupErr with the error dropped: processing goes on without a backup.
BackupErrIgnored ==
    /\ pc = "backup"
    /\ make_backup
    /\ pc' = "geometry"
    /\ UNCHANGED <<config, mainv, image, geom, scanv, loopv, hist, harness>>

\* process_image, lines 146 and 151: the path has no stem or encode32_file fails.
BackupErr ==
    /\ pc = "backup"
    /\ make_backup
    /\ Return(IF HasStem(input_paths[path_i + 1]) THEN "Err encode" ELSE "Err Invalid path")
    /\ UNCHANGED wrote

\* process_image, lines 145-153: the backup file is written.
BackupOk ==
    /\ pc = "backup"
    /\ make_backup
    /\ HasStem(input_paths[path_i + 1])
    /\ wrote' = Append(wrote, [path |-> DerivedPath(input_paths[path_i + 1], "_backup"),
                               buffer |-> buffer, width |-> width, height |-> height])
    /\ pc' = "geometry"
    /\ UNCHANGED <<config, mainv, image, geom, scanv, loopv, orig, pre, harness>>

\* columns == image.width / config.tile_size, for tile_size > 0
Columns(w, ts) == w \div ts

\* rows == image.height / config.tile_size, for tile_size > 0
Rows(h, ts) == h \div ts

\* to_insert, lines 168-169
ToInsert(nw, rws, cols, ts) == nw * rws * 2 + rws * ts * cols * 2

\* Geometry with a division that yields 0 tiles for tile_size 0 instead of
\* panicking.
GeometryZeroTiles ==
    /\ pc = "geometry"
    /\ columns' = (IF tile_size = 0 THEN 0 ELSE Columns(width, tile_size))
    /\ rows' = (IF tile_size = 0 THEN 0 ELSE Rows(height, tile_size))
    /\ new_width' = width + columns' * 2
    /\ new_height' = height + rows' * 2
    /\ to_insert' = ToInsert(new_width', rows', columns', tile_size)
    /\ inserted' = 0 /\ i' = 0 /\ scan_len' = Len(buffer)
    /\ pc' = "scan"
    /\ UNCHANGED <<config, mainv, image, loopv, hist, harness>>

\* process_image, lines 160-174: the tile grid, the expected count, and the
\* scan's range 0..image.buffer.len(), which is evaluated once.
Geometry ==
    /\ pc = "geometry"
    /\ IF tile_size = 0
       THEN Panic(160)
       ELSE /\ columns' = Columns(width, tile_size)
            /\ rows' = Rows(height, tile_size)
            /\ new_width' = width + columns' * 2
            /\ new_height' = height + rows' * 2
            /\ to_insert' = ToInsert(new_width', rows', columns', tile_size)
            /\ inserted' = 0 /\ i' = 0 /\ scan_len' = Len(buffer)
            /\ pc' = "scan"
            /\ UNCHANGED <<config, mainv, image, loopv, hist, harness>>

\* process_image, lines 174-200: one iteration of the insertion scan.
ScanStep ==
    /\ pc = "scan"
    /\ i < scan_len
    /\ LET r == ScanBody(buffer, inserted, i, width, tile_size, new_width)
       IN  buffer' = r.buffer /\ inserted' = r.inserted
    /\ i' = i + 1
    /\ UNCHANGED <<config, mainv, pc, width, height, geom, scan_len, loopv, hist, harness>>

\* process_image, lines 202-203: the trailing insertion after the scan.
Trailing ==
    /\ pc = "scan"
    /\ i = scan_len
    /\ buffer' = insert_pixels(buffer, Len(buffer), Blank(new_width + 1))
    /\ inserted' = inserted + (new_width + 1)
    /\ pc' = "asserts"
    /\ UNCHANGED <<config, mainv, width, height, geom, i, scan_len, loopv, hist, harness>>

\* The line of the first failing assertion of lines 207-209, 0 when none fails.
FailedAssert(ins, toins, len, nw, nh) ==
    IF ins # toins THEN 207
    ELSE IF len % nw # 0 THEN 208
    ELSE IF nh # len \div nw THEN 209
    ELSE 0

\* process_image, lines 207-221: the three assertions, then the image takes
\* its new size and the extrusion loop is entered.
Asserts ==
    /\ pc = "asserts"
    /\ LET line == FailedAssert(inserted, to_insert, Len(buffer), new_width, new_height)
       IN  IF line # 0
           THEN Panic(line)
           ELSE /\ height' = new_height /\ width' = new_width
                /\ pre' = buffer
                /\ tile_row_i' = 0 /\ tile_column_i' = 0 /\ tile_pixel_y' = 0 /\ tile_pixel_x' = 0
                /\ pc' = "extrude"
                /\ UNCHANGED <<config, mainv, buffer, geom, scanv, orig, wrote, harness>>

\* The extrusion loop has an iteration left to run.
InLoop == tile_row_i < rows /\ columns > 0

\* process_image, lines 223-275: one iteration of the innermost loop, and the
\* loop indices of the next one.  An index past the buffer's end panics.
ExtrudeStep ==
    /\ pc = "extrude"
    /\ InLoop
    /\ LET stride == tile_size + 2
           from_i == PixelFrom(tile_row_i, tile_column_i, tile_pixel_y, tile_pixel_x, tile_size, width)
           to_i == PixelTo(tile_row_i, tile_column_i, tile_pixel_y, tile_pixel_x, tile_size, width)
           lastx == tile_pixel_x = stride - 1
           lasty == lastx /\ tile_pixel_y = stride - 1
           lastc == lasty /\ tile_column_i = columns - 1
       IN  IF from_i # <<>> /\ (from_i[1] >= Len(buffer) \/ to_i >= Len(buffer))
           THEN Panic(269)
           ELSE /\ buffer' = ExtrudePixel(buffer, tile_row_i, tile_column_i,
                                          tile_pixel_y, tile_pixel_x, tile_size, width)
                /\ tile_pixel_x' = IF lastx THEN 0 ELSE tile_pixel_x + 1
                /\ tile_pixel_y' = IF lasty THEN 0 ELSE IF lastx THEN tile_pixel_y + 1 ELSE tile_pixel_y
                /\ tile_column_i' = IF lastc THEN 0 ELSE IF lasty THEN tile_column_i + 1 ELSE tile_column_i
                /\ tile_row_i' = IF lastc THEN tile_row_i + 1 ELSE tile_row_i
                /\ UNCHANGED <<config, mainv, pc, width, height, geom, scanv, hist, harness>>

\* process_image, lines 223-275: the loops are over.
ExtrudeDone ==
    /\ pc = "extrude"
    /\ ~InLoop
    /\ pc' = "output"
    /\ UNCHANGED <<config, mainv, image, geom, scanv, loopv, hist, harness>>

\* process_image, lines 282 and 287: the path has no stem or encode32_file fails.
OutputErr ==
    /\ pc = "output"
    /\ Return(IF HasStem(input_paths[path_i + 1]) THEN "Err encode" ELSE "Err Invalid path")
    /\ UNCHANGED wrote

\* process_image, lines 281-291: the output file is written and Ok returned.
OutputOk ==
    /\ pc = "output"
    /\ HasStem(input_paths[path_i + 1])
    /\ wrote' = Append(wrote, [path |-> DerivedPath(input_paths[path_i + 1], output_suffix),
                               buffer |-> buffer, width |-> width, height |-> height])
    /\ Return("Ok")

Next ==
    \/ StartImage \/ Exit
    \/ DecodeErr \/ DecodeOk
    \/ BackupSkip \/ BackupErr \/ BackupOk
    \/ Geometry \/ ScanStep \/ Trailing \/ Asserts
    \/ ExtrudeStep \/ ExtrudeDone
    \/ OutputErr \/ OutputOk

Spec == Init /\ [][Next]_vars

\* ------------------------------------------- the extrusion loop on its own
\* The loop of lines 223-275 takes image.buffer, image.width, columns, rows and
\* tile_size.  SpecExtrude runs it twice in succession, and SpecAnyOrder runs
\* its copies in an arbitrary order, on gutter-padded buffers whose gutters
\* hold any pixels (not only the blank ones the resize stage leaves).  The
\* loop is entered with tile_size >= 1 only: line 160 panics on 0.
GridInit(cols, rws, ts, f) ==
    /\ tile_size = ts /\ output_suffix = "_ext" /\ make_backup = FALSE
    /\ input_paths = <<[stem |-> "a", ext |-> "png"]>>
    /\ path_i = 0 /\ started = <<0>> /\ result = "running" /\ panic_line = 0
    /\ columns = cols /\ rows = rws
    /\ width = cols * (ts + 2) /\ height = rws * (ts + 2)
    /\ new_width = width /\ new_height = height
    /\ buffer = Decoded(f, width * height)
    /\ pre = buffer
    /\ to_insert = 0 /\ inserted = 0 /\ i = 0 /\ scan_len = 0
    /\ tile_row_i = 0 /\ tile_column_i = 0 /\ tile_pixel_y = 0 /\ tile_pixel_x = 0
    /\ orig = NoImage /\ wrote = <<>> /\ once = <<>>

InitExtrude ==
    /\ \E cols \in 1..MaxGrid, rws \in 1..MaxGrid, ts \in 1..MaxTile, f \in Fills :
          GridInit(cols, rws, ts, f)
    /\ pc = "extrude" /\ pass = 1 /\ todo = {}

\* The loop is run a second time on the buffer the first run left.
SecondPass ==
    /\ pc = "output"
    /\ pass = 1
    /\ pass' = 2
    /\ once' = buffer
    /\ tile_row_i' = 0 /\ tile_column_i' = 0 /\ tile_pixel_y' = 0 /\ tile_pixel_x' = 0
    /\ pc' = "extrude"
    /\ UNCHANGED <<config, mainv, image, geom, scanv, hist, todo>>

NextExtrude == ExtrudeStep \/ ExtrudeDone \/ SecondPass

SpecExtrude == InitExtrude /\ [][NextExtrude]_vars

\* The iterations of the loop that copy a pixel (from_i is Some), as
\* <<tile row, tile column, local y, local x>>.
Copies(cols, rws, ts, w) ==
    { op \in (0..rws - 1) \X (0..cols - 1) \X (0..ts + 1) \X (0..ts + 1) :
        PixelFrom(op[1], op[2], op[3], op[4], ts, w) # <<>> }

InitAnyOrder ==
    /\ \E cols \in 1..MaxGrid, rws \in 1..MaxGrid, ts \in 1..MaxTile :
          /\ cols * rws * (4 * ts + 4) <= MaxOps
          /\ GridInit(cols, rws, ts, "distinct")
    /\ pc = "anyorder" /\ pass = 0
    /\ todo = Copies(columns, rows, tile_size, width)

\* Lines 266-271 for any one iteration that has not run yet.
ExtrudeAny ==
    /\ pc = "anyorder"
    /\ \E op \in todo :
        /\ buffer' = ExtrudePixel(buffer, op[1], op[2], op[3], op[4], tile_size, width)
        /\ todo' = todo \ {op}
    /\ UNCHANGED <<config, mainv, pc, width, height, geom, scanv, loopv, hist, pass, once>>

\* Every iteration has run.
AnyDone ==
    /\ pc = "anyorder"
    /\ todo = {}
    /\ pc' = "output"
    /\ UNCHANGED <<config, mainv, image, geom, scanv, loopv, hist, harness>>

NextAnyOrder == ExtrudeAny \/ AnyDone

SpecAnyOrder == InitAnyOrder /\ [][NextAnyOrder]_vars

\* ---------------------------------------------------------------- claims
\* The decoded image has positive dimensions that are exact multiples of a
\* tile size >= 1.
Exact ==
    /\ orig # NoImage
    /\ tile_size >= 1
    /\ orig.width % tile_size = 0
    /\ orig.height % tile_size = 0

\* The decoded image has a dimension that the tile size >= 1 does not divide.
NonDividing ==
    /\ orig # NoImage
    /\ tile_size >= 1
    /\ (orig.width % tile_size # 0 \/ orig.height % tile_size # 0)

\* The local coordinate a pixel at local coordinate l takes its value from.
Clamp(l, stride) == IF l = 0 THEN 1 ELSE IF l = stride - 1 THEN stride - 2 ELSE l

\* The path of the image process_image was last called for.
CurrentPath == input_paths[started[Len(started)] + 1]

\* C1: after the extrusion loop, every pixel at local (lx, ly) of a tile holds
\* the pre-extrusion pixel of the same tile at (cx, cy), where cx is 1 for
\* lx = 0, stride-2 for lx = stride-1 and lx otherwise, and cy likewise; so
\* corners take the diagonal interior pixel, edges the straight-inward one,
\* and interior pixels keep their value (tile_size >= 1, any columns x rows).
C1_CopyRule ==
    (pc = "output" /\ pass = 1 /\ tile_size >= 1) =>
        \A X \in 0..(columns * (tile_size + 2) - 1), Y \in 0..(rows * (tile_size + 2) - 1) :
            LET stride == tile_size + 2
                lx == X % stride
                ly == Y % stride
                cx == (X - lx) + Clamp(lx, stride)
                cy == (Y - ly) + Clamp(ly, stride)
            IN  buffer[Y * width + X + 1] = pre[cy * width + cx + 1]

C1_Witness ==
    /\ pc = "output" /\ pass = 1
    /\ columns = 2 /\ rows = 1 /\ tile_size = 2
    /\ buffer # pre
    /\ buffer[1] = pre[width + 2]

\* C2: after the insertion scan and the trailing insertion, the original
\* pixel (x, y) of an exactly tiled image is at
\* (x + 2*(x div tile_size) + 1, y + 2*(y div tile_size) + 1) of the new
\* buffer of width width + 2*columns, and every other position is blank.
C2_ResizeKeepsTiles ==
    (pc = "asserts" /\ Exact) =>
        LET w == orig.width
            h == orig.height
            nw == w + 2 * (w \div tile_size)
            Pos(x, y) == (y + 2 * (y \div tile_size) + 1) * nw + (x + 2 * (x \div tile_size) + 1)
            kept == { Pos(x, y) : x \in 0..w - 1, y \in 0..h - 1 }
        IN  /\ \A x \in 0..w - 1, y \in 0..h - 1 :
                /\ Pos(x, y) < Len(buffer)
                /\ buffer[Pos(x, y) + 1] = orig.buffer[y * w + x + 1]
            /\ \A p \in 0..Len(buffer) - 1 : p \notin kept => buffer[p + 1] = 0

C2_Witness ==
    /\ pc = "asserts" /\ Exact
    /\ tile_size = 2 /\ orig.width = 4 /\ orig.height = 2
    /\ orig.buffer[2] = 2
    /\ Len(buffer) = 32

\* C3: for an exactly tiled image, when the resize stage finishes, inserted
\* equals to_insert = new_width*rows*2 + rows*tile_size*columns*2, the length
\* is a multiple of new_width, new_height = length / new_width, length =
\* new_width * new_height with new_width = width + 2*columns and new_height =
\* height + 2*rows, and none of the assertions of lines 207-209 fails.
C3_ResizePostcondition ==
    Exact =>
        /\ panic_line \notin {207, 208, 209}
        /\ pc = "asserts" =>
            /\ inserted = to_insert
            /\ to_insert = new_width * rows * 2 + rows * tile_size * columns * 2
            /\ Len(buffer) % new_width = 0
            /\ new_height = Len(buffer) \div new_width
            /\ Len(buffer) = new_width * new_height
            /\ new_width = orig.width + 2 * columns
            /\ new_height = orig.height + 2 * rows
            /\ columns * tile_size = orig.width
            /\ rows * tile_size = orig.height

C3_Witness ==
    /\ pc = "extrude" /\ Exact
    /\ columns >= 2 /\ rows >= 2 /\ columns # rows
    /\ inserted = to_insert /\ inserted > 0

\* C4: for an exactly tiled image, in the buffer handed to the encoder every
\* position holds a copy of an original pixel of the same tile (the nearest
\* interior one), and every position the resize stage filled with a blank has
\* been overwritten by the extrusion.
C4_NoBlankSurvives ==
    (Exact /\ (pc = "output" \/ (pc = "main" /\ result = "Ok"))) =>
        LET out == IF pc = "output" THEN buffer ELSE wrote[Len(wrote)].buffer
            ts == tile_size
            stride == ts + 2
            w == orig.width
            nw == w + 2 * (w \div ts)
            nh == orig.height + 2 * (orig.height \div ts)
            Src(X, Y) == ((Y \div stride) * ts + Clamp(Y % stride, stride) - 1) * w
                         + ((X \div stride) * ts + Clamp(X % stride, stride) - 1)
            Gutter(X, Y) == X % stride \in {0, stride - 1} \/ Y % stride \in {0, stride - 1}
        IN  /\ Len(out) = nw * nh
            /\ \A X \in 0..nw - 1, Y \in 0..nh - 1 :
                /\ out[Y * nw + X + 1] = orig.buffer[Src(X, Y) + 1]
                /\ Gutter(X, Y) => pre[Y * nw + X + 1] = 0
                /\ (Gutter(X, Y) /\ orig.buffer[Src(X, Y) + 1] # 0) => out[Y * nw + X + 1] # pre[Y * nw + X + 1]

C4_Witness ==
    /\ pc = "main" /\ result = "Ok" /\ Exact
    /\ orig.width = 4 /\ orig.height = 2 /\ tile_size = 2
    /\ orig.buffer[2] = 2
    /\ \A k \in 1..Len(wrote[Len(wrote)].buffer) : wrote[Len(wrote)].buffer[k] # 0

\* C5: whatever way the processing of an image fails (here with a tile size
\* >= 1, so that the failures are those of the image: decode, encode, path
\* derivation, geometry), main still starts process_image for every
\* subsequent path, in order, exactly once each: when the process ends,
\* process_image has been started for paths 0, 1, ..., n-1.
C5_BatchNeverAborted ==
    tile_size >= 1 =>
        /\ started = [k \in 1..Len(started) |-> k - 1]
        /\ pc \in {"exit", "panicked"} => Len(started) = Len(input_paths)

\* C6: when tile_size does not divide the width or the height, process_image
\* fails no assertion and raises no error for the geometry: it never panics.
C6_NonDividingCompletes ==
    NonDividing => pc # "panicked"

\* C7: with make_backup, the output file is written only after the backup
\* file, which holds the decoded, unmodified pixels and the original width
\* and height; when decoding or the backup write fails, no output is written.
C7_BackupBeforeOverwrite ==
    (make_backup /\ started # <<>>) =>
        /\ \A k \in 1..Len(wrote) :
            wrote[k].path = DerivedPath(CurrentPath, output_suffix) =>
                /\ k = 2
                /\ wrote[1] = [path |-> DerivedPath(CurrentPath, "_backup"),
                               buffer |-> orig.buffer,
                               width |-> orig.width, height |-> orig.height]
        /\ result = "Ok" => Len(wrote) = 2 /\ wrote[2].path = DerivedPath(CurrentPath, output_suffix)
        /\ result = "Err decode" => wrote = <<>>

C7_Witness ==
    /\ make_backup /\ pc = "main" /\ result = "Ok"
    /\ Len(wrote) = 2
    /\ wrote[1].buffer = orig.buffer
    /\ wrote[2].buffer # wrote[1].buffer
    /\ wrote[2].width = orig.width + 2 * (orig.width \div tile_size)

\* C8: running the extrusion loop a second time leaves the buffer as the
\* first run left it (tile_size >= 1).
C8_ExtrudeIdempotent ==
    (pass = 2 /\ tile_size >= 1) => buffer = once

C8_Witness ==
    /\ pass = 2 /\ pc = "output"
    /\ columns # rows
    /\ once # pre
    /\ buffer = once

\* C9: every copy of one extrusion pass reads an interior pixel that no copy
\* of the pass writes, and no pixel is written by two copies; so with the
\* copies run in any order, every copy that has run has left the pre-pass
\* value of its source in its target, and the final buffer is the one the
\* row-major loop produces.
C9_OrderIndependent ==
    pc \in {"anyorder", "output"} /\ pass = 0 =>
        LET ops == Copies(columns, rows, tile_size, width)
            stride == tile_size + 2
            From(op) == PixelFrom(op[1], op[2], op[3], op[4], tile_size, width)[1]
            To(op) == PixelTo(op[1], op[2], op[3], op[4], tile_size, width)
            Interior(p) == /\ (p % width) % stride \notin {0, stride - 1}
                           /\ (p \div width) % stride \notin {0, stride - 1}
        IN  /\ todo = ops =>
                /\ \A a \in ops : Interior(From(a))
                /\ \A a \in ops, b \in ops : From(a) # To(b) /\ (a # b => To(a) # To(b))
            /\ \A a \in ops \ todo : buffer[To(a) + 1] = pre[From(a) + 1]
            /\ \A a \in todo : buffer[From(a) + 1] = pre[From(a) + 1]
            /\ todo = {} => buffer = ExtrudeAll(pre, columns, rows, tile_size, width)

C9_Witness ==
    /\ pc = "output" /\ pass = 0 /\ todo = {}
    /\ columns * rows = 2
    /\ buffer # pre

\* C10 as stated: with tile_size = 0 the processing of an image does not
\* fail, and the extrusion leaves the four pixels of every 2x2 tile equal to
\* one value.
C10_TileSizeZeroLegal ==
    (tile_size = 0 /\ orig # NoImage) =>
        /\ pc # "panicked"
        /\ pc = "output" =>
            \A X \in 0..width - 1, Y \in 0..height - 1 :
                buffer[Y * width + X + 1] = buffer[(Y - (Y % 2)) * width + (X - (X % 2)) + 1]

\* C10 as amended: with tile_size = 0 every image that is decoded (and backed
\* up) panics at line 160, on the division by tile_size, before the buffer is
\* touched: the resize and the extrusion are never reached and no output file
\* is written.  The corner/edge rules run on a 2x2 tile leave the top row
\* holding the mirrored bottom row and the bottom row unchanged: two values.
C10_TileSizeZeroPanics ==
    tile_size = 0 =>
        /\ pc \in {"main", "decode", "backup", "geometry", "panicked", "exit"}
        /\ result \in {"none", "running", "Err decode", "Err encode", "Err Invalid path", "panic"}
        /\ pc = "panicked" => panic_line = 160 /\ buffer = orig.buffer
        /\ \A k \in 1..Len(wrote) : wrote[k].path = DerivedPath(CurrentPath, "_backup")
        /\ ExtrudeAll(<<1, 2, 3, 4>>, 1, 1, 0, 2) = <<4, 3, 3, 4>>

C10_Witness ==
    /\ tile_size = 0 /\ pc = "panicked" /\ panic_line = 160
    /\ Len(input_paths) = 2 /\ started = <<0>>
    /\ Len(buffer) = 4

====
